---- MODULE Spec2Model ----
(***************************************************************************)
(* A model of the request handling of dufs (src/src/server.rs): the auth   *)
(* guard, the resolution of the URL path against the served root, the      *)
(* dispatch on method / path state / query, and the handlers that read or  *)
(* change the filesystem.  The filesystem is the only mutable state of the *)
(* program; the last request, its response and the filesystem it found are *)
(* kept beside it so that the properties can speak about one request.      *)
(***************************************************************************)
EXTENDS Integers, Sequences, FiniteSets, TLC

VARIABLES
    fs,      \* the filesystem: canonical absolute path -> node
    clock,   \* the system time, in milliseconds since the epoch
    args,    \* InnerService.args: the immutable configuration
    req,     \* the last request handled
    res,     \* the response InnerService::call returned for it
    pre,     \* the filesystem as that request found it
    producer, \* the task handle_zip_dir spawned: where dir_zip stands
    duplex,   \* the pipe of tokio::io::duplex between dir_zip and the body
    stream,   \* the response body as the client has received it
    wrote     \* everything the producer has written into the pipe

zvars == <<producer, duplex, stream, wrote>>
vars == <<fs, clock, args, req, res, pre, producer, duplex, stream, wrote>>

----------------------------------------------------------------------------
(* Bounds of the model.                                                    *)

\* the clock advances at most this many times
MaxTicks == 1

\* one advance of the clock, in milliseconds
TickMs == 1000

\* the time the files of the initial tree were written, and the time the
\* server starts, in milliseconds
OldMs == 500
StartMs == 1000

\* the archive stream is counted in blocks of this many bytes: every write
\* of the producer and every read of the body moves one block
BlockBytes == 4096

----------------------------------------------------------------------------
(* Strings.  A string the code inspects character by character is looked   *)
(* up here as its sequence of characters.                                  *)

Chars(s) ==
    CASE s = ""      -> <<>>
      [] s = "b"     -> <<"b">>
      [] s = "Ab"    -> <<"A", "b">>
      [] s = "ln"    -> <<"l", "n">>
      [] s = "x"     -> <<"x">>
      [] s = "f"     -> <<"f">>
      [] s = "srv"   -> <<"s", "r", "v">>
      [] s = "etc"   -> <<"e", "t", "c">>
      [] s = ".."    -> <<".", ".">>
      [] s = "zip"   -> <<"z", "i", "p">>
      [] s = "unzip" -> <<"u", "n", "z", "i", "p">>
      [] s = "q="    -> <<"q", "=">>
      [] s = "q=b"   -> <<"q", "=", "b">>
      [] s = "q=ab"  -> <<"q", "=", "a", "b">>
      [] s = "q=AB"  -> <<"q", "=", "A", "B">>

\* char::to_lowercase on the characters of the model
LowerChar(c) ==
    CASE c = "A" -> "a"
      [] c = "B" -> "b"
      [] OTHER   -> c

to_lowercase(cs) == [i \in 1..Len(cs) |-> LowerChar(cs[i])]

\* str::contains: t occurs in s as a contiguous substring
contains(s, t) ==
    \E i \in 0..(Len(s) - Len(t)) : SubSeq(s, i + 1, i + Len(t)) = t

\* str::starts_with
starts_with_str(s, t) == Len(s) >= Len(t) /\ SubSeq(s, 1, Len(t)) = t

\* the byte order of the characters of the model (their ASCII codes)
CharCode(c) ==
    CASE c = "." -> 46
      [] c = "/" -> 47
      [] c = "A" -> 65
      [] c = "B" -> 66
      [] c = "a" -> 97
      [] c = "b" -> 98
      [] c = "c" -> 99
      [] c = "e" -> 101
      [] c = "f" -> 102
      [] c = "l" -> 108
      [] c = "n" -> 110
      [] c = "r" -> 114
      [] c = "s" -> 115
      [] c = "t" -> 116
      [] c = "v" -> 118
      [] c = "x" -> 120

\* the derived Ord of String: lexicographic on bytes
RECURSIVE StrLess(_, _)
StrLess(s, t) ==
    IF t = <<>> THEN FALSE
    ELSE IF s = <<>> THEN TRUE
    ELSE IF CharCode(Head(s)) # CharCode(Head(t))
         THEN CharCode(Head(s)) < CharCode(Head(t))
    ELSE StrLess(Tail(s), Tail(t))

----------------------------------------------------------------------------
(* Paths.  A std::path::PathBuf is kept as its components (".." is a       *)
(* component like any other: nothing in the code resolves it) and whether  *)
(* the string ends in a separator.  A canonical path, the key of fs, is a  *)
(* sequence of names; <<>> is "/".                                         *)

PathBuf(comps, trail) == [comps |-> comps, trail |-> trail]

\* Path::components of a token sequence: separators and "." are dropped
RECURSIVE Components(_)
Components(toks) ==
    IF toks = <<>> THEN <<>>
    ELSE IF Head(toks) \in {"/", "."} THEN Components(Tail(toks))
    ELSE <<Head(toks)>> \o Components(Tail(toks))

IsPrefix(a, b) == Len(a) <= Len(b) /\ SubSeq(b, 1, Len(a)) = a

\* Path::starts_with: whole components, compared as written
PathStartsWith(p, base) == IsPrefix(base.comps, p.comps)

\* Path::parent: the path without its last component
HasParent(p) == p.comps # <<>>
PathParent(p) == PathBuf(SubSeq(p.comps, 1, Len(p.comps) - 1), FALSE)

\* Path::join of a relative or absolute string, given as tokens
PathJoin(base, toks) ==
    LET trail == IF toks = <<>> THEN TRUE ELSE toks[Len(toks)] = "/"
    IN  IF toks # <<>> /\ Head(toks) = "/"
        THEN PathBuf(Components(toks), trail /\ Components(toks) # <<>>)
        ELSE PathBuf(base.comps \o Components(toks), trail)

Parent(c) == IF c = <<>> THEN <<>> ELSE SubSeq(c, 1, Len(c) - 1)

----------------------------------------------------------------------------
(* The filesystem, as the operating system resolves and changes it.        *)

DirNode == [kind |-> "dir"]
FileNode(data, mtime) == [kind |-> "file", data |-> data, mtime |-> mtime]
SymlinkNode(target) == [kind |-> "symlink", target |-> target]

Exists(f, c) == c \in DOMAIN f
IsDirAt(f, c) == Exists(f, c) /\ f[c].kind = "dir"

\* path resolution: every component is looked up in a directory; ".." is
\* the parent of the directory reached; a symbolic link that is not the
\* last component (or is, when follow) is replaced by its target
RECURSIVE Walk(_, _, _, _)
Walk(f, cur, comps, follow) ==
    IF comps = <<>> THEN [ok |-> TRUE, at |-> cur]
    ELSE IF ~IsDirAt(f, cur) THEN [ok |-> FALSE, at |-> cur]
    ELSE LET Step(nxt) ==
                 IF /\ Exists(f, nxt)
                    /\ f[nxt].kind = "symlink"
                    /\ (Tail(comps) # <<>> \/ follow)
                 THEN Walk(f, f[nxt].target, Tail(comps), follow)
                 ELSE Walk(f, nxt, Tail(comps), follow)
         IN  Step(IF Head(comps) = ".." THEN Parent(cur) ELSE Append(cur, Head(comps)))

Resolve(f, p, follow) == Walk(f, <<>>, p.comps, follow \/ p.trail)

NoNode == [kind |-> "none"]

\* stat / lstat: the node a path names, or NoNode when the call fails
Stat(f, p, follow) ==
    LET At(r) ==
            IF ~r.ok \/ ~Exists(f, r.at) THEN NoNode
            ELSE IF p.trail /\ f[r.at].kind # "dir" THEN NoNode
            ELSE f[r.at]
    IN  At(Resolve(f, p, follow))

metadata(f, p) == Stat(f, p, TRUE)
symlink_metadata(f, p) == Stat(f, p, FALSE)

WriteNode(f, c, node) == [x \in DOMAIN f \cup {c} |-> IF x = c THEN node ELSE f[x]]
RemoveNodes(f, gone) == [x \in DOMAIN f \ gone |-> f[x]]
Subtree(f, c) == {x \in DOMAIN f : IsPrefix(c, x)}

Ok(f) == [ok |-> TRUE, fs |-> f]
Err(f) == [ok |-> FALSE, fs |-> f]

\* fs::create_dir_all: the missing directories of the path are made, from
\* the first missing one down; an ancestor that is not a directory fails
\* the call before anything is made
RECURSIVE MkdirFrom(_, _, _)
MkdirFrom(f, comps, k) ==
    IF k > Len(comps) THEN Ok(f)
    ELSE LET At(r) ==
                 IF ~r.ok THEN Err(f)
                 ELSE IF Exists(f, r.at)
                      THEN IF f[r.at].kind = "dir"
                           THEN MkdirFrom(f, comps, k + 1)
                           ELSE Err(f)
                 ELSE IF ~IsDirAt(f, Parent(r.at)) THEN Err(f)
                 ELSE MkdirFrom(WriteNode(f, r.at, DirNode), comps, k + 1)
         IN  At(Walk(f, <<>>, SubSeq(comps, 1, k), TRUE))

create_dir_all(f, p) == MkdirFrom(f, p.comps, 1)

\* File::create opening without truncation: the body lands after the old
\* content
FileCreate_append(f, p, data, now) ==
    LET At(r) ==
            IF p.trail \/ ~r.ok THEN Err(f)
            ELSE IF Exists(f, r.at)
                 THEN IF f[r.at].kind = "file"
                      THEN Ok(WriteNode(f, r.at, FileNode(f[r.at].data \o data, now)))
                      ELSE Err(f)
            ELSE IF ~IsDirAt(f, Parent(r.at)) THEN Err(f)
            ELSE Ok(WriteNode(f, r.at, FileNode(data, now)))
    IN  At(Resolve(f, p, TRUE))

\* fs::File::create followed by io::copy of data: open(O_CREAT|O_TRUNC)
\* fails on a path ending in a separator, on a directory and under a
\* missing parent; otherwise the file holds exactly data
FileCreate(f, p, data, now) ==
    LET At(r) ==
            IF p.trail \/ ~r.ok THEN Err(f)
            ELSE IF Exists(f, r.at)
                 THEN IF f[r.at].kind = "file"
                      THEN Ok(WriteNode(f, r.at, FileNode(data, now)))
                      ELSE Err(f)
            ELSE IF ~IsDirAt(f, Parent(r.at)) THEN Err(f)
            ELSE Ok(WriteNode(f, r.at, FileNode(data, now)))
    IN  At(Resolve(f, p, TRUE))

\* fs::remove_file: unlink; a directory is not removed
remove_file(f, p) ==
    LET At(r) ==
            IF ~r.ok \/ ~Exists(f, r.at) \/ p.trail THEN Err(f)
            ELSE IF f[r.at].kind = "dir" THEN Err(f)
            ELSE Ok(RemoveNodes(f, {r.at}))
    IN  At(Resolve(f, p, FALSE))

\* fs::remove_dir_all: a symbolic link is unlinked, a directory is removed
\* with everything below it
remove_dir_all(f, p) ==
    LET At(r) ==
            IF ~r.ok \/ ~Exists(f, r.at) THEN Err(f)
            ELSE IF f[r.at].kind = "symlink" THEN Ok(RemoveNodes(f, {r.at}))
            ELSE IF f[r.at].kind = "dir" /\ r.at # <<>>
                 THEN Ok(RemoveNodes(f, Subtree(f, r.at)))
            ELSE Err(f)
    IN  At(Resolve(f, p, FALSE))

----------------------------------------------------------------------------
(* Requests and responses.                                                 *)

\* Response::default(): 200, no headers, empty body
EmptyBody == [kind |-> "empty"]
NoTag == [present |-> FALSE]
None == <<>>
Some(v) == <<v>>
DefaultResponse ==
    [status |-> 200, www_authenticate |-> "", etag |-> NoTag,
     last_modified |-> None, cors |-> FALSE, body |-> EmptyBody]

\* StatusCode
OK == 200
NO_CONTENT == 204
NOT_MODIFIED == 304
UNAUTHORIZED == 401
FORBIDDEN == 403
NOT_FOUND == 404
INTERNAL_SERVER_ERROR == 500
\* no response at all: the task that served the connection panicked
NoResponse == 0

\* the credential of the configurations that have one, and another string
Credential == "user:pass"
OtherCredential == "user:nope"

\* base64::decode followed by String::from_utf8, on the words of the model
base64_decode(word) ==
    CASE word = <<"dXNlcjpwYXNz">> -> [ok |-> TRUE, text |-> Credential]
      [] word = <<"dXNlcjpub3Bl">> -> [ok |-> TRUE, text |-> OtherCredential]
      [] OTHER                     -> [ok |-> FALSE, text |-> ""]

\* str::split(' '): the pieces between the spaces, none of which holds one
RECURSIVE split_space(_)
split_space(v) ==
    IF \A i \in 1..Len(v) : v[i] # " " THEN <<v>>
    ELSE LET i == CHOOSE j \in 1..Len(v) :
                      v[j] = " " /\ \A k \in 1..(j - 1) : v[k] # " "
         IN  <<SubSeq(v, 1, i - 1)>> \o split_space(SubSeq(v, i + 1, Len(v)))

\* the pattern the first piece is matched against: the literal "Basic "
BasicPattern == <<"Basic", " ">>

\* percent_decode(..).decode_utf8(): an escape becomes what it encodes;
\* %ff is no UTF-8
DecodeToken(t) ==
    CASE t = "%2e%2e" -> ".."
      [] t = "%2F"    -> "/"
      [] OTHER        -> t

percent_decode(toks) ==
    [ok   |-> \A i \in 1..Len(toks) : toks[i] # "%ff",
     toks |-> [i \in 1..Len(toks) |-> DecodeToken(toks[i])]]

\* to_timestamp: milliseconds since the epoch
to_timestamp(time) == time

\* HttpDate::from(SystemTime): whole seconds
HttpDate(time) == time \div 1000

\* a validator that leaves the size out
ETagOf_without_size(timestamp, size) ==
    [present |-> TRUE, weak |-> FALSE, tag |-> <<timestamp, 0>>]

\* format!("\"{}-{}\"", timestamp, size).parse::<ETag>(): a strong tag; the
\* two numbers are kept apart by the '-'
ETagOf(timestamp, size) ==
    [present |-> TRUE, weak |-> FALSE, tag |-> <<timestamp, size>>]

\* IfNoneMatch::precondition_passes: "*" never passes; a list passes when
\* no tag of it equals the validator, weakness aside
precondition_passes(if_none_match, etag) ==
    IF if_none_match.any THEN FALSE
    ELSE \A t \in if_none_match.tags : t.tag # etag.tag

\* IfModifiedSince::is_modified
is_modified(if_modified_since, mtime) == if_modified_since < HttpDate(mtime)

\* the length in bytes of a file's content
BodyLen(data) == Len(data)

----------------------------------------------------------------------------
(* Directory entries.                                                      *)

\* fs::read_dir: the direct children of a directory, or failure
read_dir(f, p) ==
    LET At(r) ==
            IF r.ok /\ IsDirAt(f, r.at)
            THEN [ok |-> TRUE,
                  entries |-> {SubSeq(c, Len(r.at) + 1, Len(c)) :
                                 c \in {x \in DOMAIN f : /\ Len(x) = Len(r.at) + 1
                                                         /\ IsPrefix(r.at, x)}}]
            ELSE [ok |-> FALSE, entries |-> {}]
    IN  At(Resolve(f, p, TRUE))

\* async_walkdir::WalkDir: every entry below a directory, each given by its
\* path relative to it; symbolic links are entries and are not descended
\* into; a directory that cannot be read yields nothing
WalkDir(f, p) ==
    LET At(r) ==
            IF r.ok /\ IsDirAt(f, r.at)
            THEN {SubSeq(c, Len(r.at) + 1, Len(c)) :
                    c \in {x \in DOMAIN f : IsPrefix(r.at, x) /\ x # r.at}}
            ELSE {}
    IN  At(Resolve(f, p, TRUE))

EntryPath(p, rel) == PathBuf(p.comps \o rel, FALSE)

\* the name of a path relative to the listed directory, as a string
RECURSIVE NameChars(_)
NameChars(rel) ==
    IF rel = <<>> THEN <<>>
    ELSE IF Len(rel) = 1 THEN Chars(rel[1])
    ELSE Chars(rel[1]) \o <<"/">> \o NameChars(Tail(rel))

\* to_pathitem: the entry descriptor, or failure when the target of the
\* entry does not resolve.  The modification time of a directory is not
\* modelled and reads 0.
to_pathitem(f, p, rel) ==
    LET Item(meta, meta2) ==
            LET is_dir == meta.kind = "dir"
                is_symlink == meta2.kind = "symlink"
                path_type ==
                    CASE is_symlink /\ is_dir   -> "SymlinkDir"
                      [] ~is_symlink /\ is_dir  -> "Dir"
                      [] is_symlink /\ ~is_dir  -> "SymlinkFile"
                      [] ~is_symlink /\ ~is_dir -> "File"
            IN  IF meta.kind = "none" \/ meta2.kind = "none"
                THEN [ok |-> FALSE]
                ELSE [ok   |-> TRUE,
                      item |-> [path_type |-> path_type,
                                name  |-> rel,
                                mtime |-> IF is_dir THEN 0 ELSE to_timestamp(meta.mtime),
                                size  |-> IF is_dir THEN None
                                          ELSE Some(BodyLen(meta.data))]]
    IN  Item(metadata(f, EntryPath(p, rel)), symlink_metadata(f, EntryPath(p, rel)))

\* the order of the variants of PathType
PathTypeRank(t) ==
    CASE t = "Dir"         -> 0
      [] t = "SymlinkDir"  -> 1
      [] t = "File"        -> 2
      [] t = "SymlinkFile" -> 3

\* the derived Ord of PathItem: path_type, then name, then mtime, then size
ItemLess(a, b) ==
    IF a.path_type # b.path_type
    THEN PathTypeRank(a.path_type) < PathTypeRank(b.path_type)
    ELSE IF a.name # b.name
    THEN StrLess(NameChars(a.name), NameChars(b.name))
    ELSE IF a.mtime # b.mtime THEN a.mtime < b.mtime
    ELSE IF a.size = None THEN b.size # None
    ELSE b.size # None /\ a.size[1] < b.size[1]

\* paths.sort_unstable()
RECURSIVE sort_unstable(_)
sort_unstable(items) ==
    IF items = {} THEN <<>>
    ELSE LET First(m) == <<m>> \o sort_unstable(items \ {m})
         IN  First(CHOOSE x \in items : \A y \in items \ {x} : ItemLess(x, y))

----------------------------------------------------------------------------
(* The handlers.  Each yields what BoxResult<..> and the filesystem hold   *)
(* when it returns: "ok" with the response, "err" (the ? operator left the *)
(* handler early) or "panic".                                              *)

Done(r, f) == [outcome |-> "ok", res |-> r, fs |-> f]
Fail(f) == [outcome |-> "err", res |-> DefaultResponse, fs |-> f]
Panic(f) == [outcome |-> "panic", res |-> DefaultResponse, fs |-> f]

\* upload bodies: two plain contents of different lengths and four archives
B1 == <<1>>
B2 == <<2, 3>>
ZipA == <<80, 75, 1>>
ZipB == <<80, 75, 2>>
ZipC == <<80, 75, 3>>
ZipD == <<80, 75, 4>>

\* the content of a file outside the served root
Secret == <<9>>

\* ZipFileReader::new(..).entries(): the central directory of an archive,
\* or failure when the bytes are no archive
ZipEntries(data) ==
    CASE data = ZipA ->
           [ok |-> TRUE,
            entries |-> << [name |-> <<"x", "/">>, data |-> <<>>],
                           [name |-> <<"x", "/", "b">>, data |-> B1] >>]
      [] data = ZipB ->
           [ok |-> TRUE,
            entries |-> << [name |-> <<"Ab", "/", "b">>, data |-> B1],
                           [name |-> <<"f", "/">>, data |-> <<>>] >>]
      [] data = ZipC ->
           [ok |-> TRUE,
            entries |-> << [name |-> <<"..", "/", "etc", "/", "b">>, data |-> B1],
                           [name |-> <<"/", "etc", "/", "x">>, data |-> B2] >>]
      [] data = ZipD ->
           [ok |-> TRUE,
            entries |-> << [name |-> <<"x">>, data |-> B1],
                           [name |-> <<"b">>, data |-> B2] >>]
      [] OTHER -> [ok |-> FALSE, entries |-> <<>>]

\* zip.entry_reader(i): the entry is read from the file the archive was
\* opened from; it is there as long as that file holds the archive
EntryReadable(f, path, archive) == metadata(f, path) = FileNode(archive, metadata(f, path).mtime)

\* the loop of handle_upload over the entries of the archive
RECURSIVE ExtractFrom(_, _, _, _, _, _, _)
ExtractFrom(f, path, archive, root, entries, i, now) ==
    IF i > Len(entries) THEN Ok(f)
    ELSE LET entry_name == entries[i].name
             entry_path == PathJoin(root, entry_name)
             Copied(cp) ==
                 ExtractFrom(cp.fs, path, archive, root, entries, i + 1, now)
             Created(outfile, before) ==
                 IF ~outfile.ok THEN Err(before)
                 ELSE IF ~EntryReadable(outfile.fs, path, archive) THEN Err(outfile.fs)
                 ELSE Copied(FileCreate(outfile.fs, entry_path, entries[i].data, now))
             Made(mk) ==
                 IF ~mk.ok THEN Err(mk.fs)
                 ELSE IF entry_name[Len(entry_name)] = "/"
                 THEN ExtractFrom(mk.fs, path, archive, root, entries, i + 1, now)
                 ELSE Created(FileCreate(mk.fs, entry_path, <<>>, now), mk.fs)
         IN  IF entry_name[Len(entry_name)] = "/"
             THEN Made(create_dir_all(f, entry_path))
             ELSE IF /\ HasParent(entry_path)
                     /\ symlink_metadata(f, PathParent(entry_path)).kind = "none"
             THEN Made(create_dir_all(f, PathParent(entry_path)))
             ELSE Made(Ok(f))

handle_upload(f, path, r, response, now) ==
    LET parent == PathParent(path)
        Removed(rm) ==
            IF ~rm.ok THEN Fail(rm.fs) ELSE Done(response, rm.fs)
        Extracted(ex) ==
            IF ~ex.ok THEN Fail(ex.fs) ELSE Removed(remove_file(ex.fs, path))
        Opened(zip, written) ==
            IF ~zip.ok THEN Fail(written)
            ELSE Extracted(ExtractFrom(written, path, r.body, parent, zip.entries, 1, now))
        Written(file, before) ==
            IF ~file.ok THEN Fail(before)
            ELSE IF r.query # "unzip" THEN Done(response, file.fs)
            ELSE Opened(ZipEntries(r.body), file.fs)
        Ensured(ensure_parent, mk) ==
            IF ~mk.ok THEN Fail(mk.fs)
            ELSE IF ~ensure_parent
            THEN Done([response EXCEPT !.status = FORBIDDEN], mk.fs)
            ELSE Written(FileCreate(mk.fs, path, r.body, now), mk.fs)
        Probed(probe) ==
            IF probe.kind = "none"
            THEN Ensured(TRUE, create_dir_all(f, parent))
            ELSE Ensured(probe.kind = "dir", Ok(f))
    IN  IF HasParent(path)
        THEN Probed(metadata(f, parent))
        ELSE Ensured(FALSE, Ok(f))

\* handle_delete removing a directory like a file
handle_delete_file_only(f, path, is_dir, response) ==
    LET Removed(rm) == IF rm.ok THEN Done(response, rm.fs) ELSE Fail(rm.fs)
    IN  Removed(remove_file(f, path))

handle_delete(f, path, is_dir, response) ==
    LET Removed(rm) == IF rm.ok THEN Done(response, rm.fs) ELSE Fail(rm.fs)
    IN  IF is_dir
        THEN Removed(remove_dir_all(f, path))
        ELSE Removed(remove_file(f, path))

\* send_index: the listing page, given by the data it embeds
send_index(path, paths, response) ==
    [response EXCEPT !.body =
        [kind       |-> "index",
         breadcrumb |-> SubSeq(path.comps, Len(args.path.comps), Len(path.comps)),
         paths      |-> sort_unstable(paths),
         readonly   |-> args.readonly]]

handle_ls_dir(f, path, exist, response) ==
    LET Read(rd) ==
            IF ~rd.ok THEN Fail(f)
            ELSE Done(send_index(path,
                                 {to_pathitem(f, path, e).item :
                                    e \in {x \in rd.entries : to_pathitem(f, path, x).ok}},
                                 response), f)
    IN  IF exist
        THEN Read(read_dir(f, path))
        ELSE Done(send_index(path, {}, response), f)

handle_query_dir(f, path, query, response) ==
    LET Found(hits) ==
            Done(send_index(path, {to_pathitem(f, path, e).item : e \in hits}, response), f)
    IN  Found({e \in WalkDir(f, path) :
                 /\ contains(to_lowercase(Chars(e[Len(e)])), to_lowercase(query))
                 /\ symlink_metadata(f, EntryPath(path, e)).kind # "none"
                 /\ to_pathitem(f, path, e).ok})

\* dir_zip: one archive entry, named by its path relative to dir, for every
\* regular file the walk meets, then the trailer.  The archive is given by
\* its entries; the walk's order is the directory order, taken here as the
\* order of the names.
RECURSIVE ZipOf(_, _, _)
ZipOf(f, dir, rels) ==
    IF rels = {} THEN <<>>
    ELSE LET Entry(m, meta) ==
                 IF meta.kind = "file"
                 THEN <<[name |-> m, data |-> meta.data]>> \o ZipOf(f, dir, rels \ {m})
                 ELSE ZipOf(f, dir, rels \ {m})
             Visit(m) == Entry(m, symlink_metadata(f, EntryPath(dir, m)))
         IN  Visit(CHOOSE x \in rels :
                     \A y \in rels \ {x} : StrLess(NameChars(x), NameChars(y)))

\* dir_zip probing with metadata, which follows symbolic links
RECURSIVE ZipOf_following(_, _, _)
ZipOf_following(f, dir, rels) ==
    IF rels = {} THEN <<>>
    ELSE LET Entry(m, meta) ==
                 IF meta.kind = "file"
                 THEN <<[name |-> m, data |-> meta.data]>>
                          \o ZipOf_following(f, dir, rels \ {m})
                 ELSE ZipOf_following(f, dir, rels \ {m})
             Visit(m) == Entry(m, metadata(f, EntryPath(dir, m)))
         IN  Visit(CHOOSE x \in rels :
                     \A y \in rels \ {x} : StrLess(NameChars(x), NameChars(y)))

dir_zip_following(f, dir) ==
    [kind |-> "zip", entries |-> ZipOf_following(f, dir, WalkDir(f, dir)), closed |-> TRUE]

dir_zip(f, dir) ==
    [kind |-> "zip", entries |-> ZipOf(f, dir, WalkDir(f, dir)), closed |-> TRUE]

\* handle_zip_dir: the body is the stream the spawned dir_zip task writes
handle_zip_dir(f, path, response) ==
    Done([response EXCEPT !.body = dir_zip(f, path)], f)

\* handle_send_file consulting If-Modified-Since before If-None-Match
handle_send_file_since_first(f, path, r, response) ==
    LET Send(meta) ==
            LET etag == ETagOf(to_timestamp(meta.mtime), BodyLen(meta.data))
                fresh == IF r.if_modified_since # None
                         THEN ~is_modified(r.if_modified_since[1], meta.mtime)
                         ELSE IF r.if_none_match # None
                         THEN ~precondition_passes(r.if_none_match[1], etag)
                         ELSE FALSE
                validated == [response EXCEPT !.last_modified = Some(HttpDate(meta.mtime)),
                                              !.etag = etag]
            IN  IF meta.kind # "file" THEN Fail(f)
                ELSE IF fresh THEN Done([validated EXCEPT !.status = NOT_MODIFIED], f)
                ELSE Done([validated EXCEPT
                              !.body = [kind |-> "file", data |-> meta.data]], f)
    IN  Send(metadata(f, path))

handle_send_file(f, path, r, response) ==
    LET Send(meta) ==
            LET timestamp == to_timestamp(meta.mtime)
                size == BodyLen(meta.data)
                etag == ETagOf(timestamp, size)
                last_modified == Some(HttpDate(meta.mtime))
                fresh == IF r.if_none_match # None
                         THEN ~precondition_passes(r.if_none_match[1], etag)
                         ELSE IF r.if_modified_since # None
                         THEN ~is_modified(r.if_modified_since[1], meta.mtime)
                         ELSE FALSE
                validated == [response EXCEPT !.last_modified = last_modified,
                                              !.etag = etag]
            IN  IF meta.kind # "file" THEN Fail(f)
                ELSE IF fresh THEN Done([validated EXCEPT !.status = NOT_MODIFIED], f)
                ELSE Done([validated EXCEPT
                              !.body = [kind |-> "file", data |-> meta.data]], f)
    IN  Send(metadata(f, path))

\* auth_guard with the anonymous allowance given to every method
auth_guard_any_method(r) ==
    IF args.auth = None THEN TRUE
    ELSE IF r.authorization # None THEN FALSE
    ELSE args.no_auth_read

\* auth_guard: whether the request passes
auth_guard(r) ==
    IF args.auth = None THEN TRUE
    ELSE IF r.authorization # None
         THEN LET it == split_space(r.authorization[1])
              IN  /\ Len(it) >= 2
                  /\ it[1] = BasicPattern
                  /\ base64_decode(it[2]).ok
                  /\ base64_decode(it[2]).text = args.auth[1]
    ELSE args.no_auth_read /\ r.method = "GET"

\* extract_path: the filesystem path of a URL path, or None
extract_path(path) ==
    LET decoded_path == percent_decode(Tail(path))
        full_path == PathJoin(args.path, decoded_path.toks)
    IN  IF ~decoded_path.ok THEN None
        ELSE IF PathStartsWith(full_path, args.path) THEN Some(full_path)
        ELSE None

\* the PUT arm without the read-only guard
MatchPut_unguarded(f, filepath, r, response, now) ==
    handle_upload(f, filepath, r, response, now)

\* the arms of handle's match that change the filesystem
MatchPut(f, filepath, r, response, now) ==
    IF args.readonly
    THEN Done([response EXCEPT !.status = FORBIDDEN], f)
    ELSE handle_upload(f, filepath, r, response, now)

MatchDelete(f, filepath, is_dir, response) ==
    IF args.readonly
    THEN Done([response EXCEPT !.status = FORBIDDEN], f)
    ELSE handle_delete(f, filepath, is_dir, response)

handle(f, r, now) ==
    LET response == DefaultResponse
        query == Chars(r.query)
        Match(filepath, meta) ==
            LET is_miss == meta.kind = "none"
                is_dir == meta.kind = "dir"
            IN  IF r.method = "GET" /\ is_dir /\ r.query = "zip"
                THEN handle_zip_dir(f, filepath, response)
                ELSE IF r.method = "GET" /\ is_dir /\ starts_with_str(query, Chars("q="))
                THEN IF Len(query) < 3 THEN Panic(f)
                     ELSE handle_query_dir(f, filepath, SubSeq(query, 4, Len(query)),
                                           response)
                ELSE IF r.method = "GET" /\ ~is_dir /\ ~is_miss
                THEN handle_send_file(f, filepath, r, response)
                ELSE IF r.method = "GET" /\ is_miss /\ r.path[Len(r.path)] = "/"
                THEN handle_ls_dir(f, filepath, FALSE, response)
                ELSE IF r.method = "GET"
                THEN handle_ls_dir(f, filepath, TRUE, response)
                ELSE IF r.method = "OPTIONS"
                THEN Done([response EXCEPT !.status = NO_CONTENT], f)
                ELSE IF r.method = "PUT"
                THEN MatchPut(f, filepath, r, response, now)
                ELSE IF r.method = "DELETE" /\ ~is_miss
                THEN MatchDelete(f, filepath, is_dir, response)
                ELSE Done([response EXCEPT !.status = NOT_FOUND], f)
        Located(found) ==
            IF found = None
            THEN Done([response EXCEPT !.status = FORBIDDEN], f)
            ELSE Match(found[1], metadata(f, found[1]))
    IN  IF ~auth_guard(r)
        THEN Done([response EXCEPT !.status = UNAUTHORIZED,
                                   !.www_authenticate = "Basic"], f)
        ELSE Located(extract_path(r.path))

\* add_cors
add_cors(response) == [response EXCEPT !.cors = TRUE]

\* call: an error of handle becomes a 500 whose body is its message
call(f, r, now) ==
    LET Reply(h) ==
            LET response ==
                    IF h.outcome = "err"
                    THEN [DefaultResponse EXCEPT !.status = INTERNAL_SERVER_ERROR,
                                                 !.body = [kind |-> "error"]]
                    ELSE h.res
            IN  IF h.outcome = "panic"
                THEN [res |-> [DefaultResponse EXCEPT !.status = NoResponse],
                      fs  |-> h.fs]
                ELSE [res |-> IF args.cors THEN add_cors(response) ELSE response,
                      fs  |-> h.fs]
    IN  Reply(handle(f, r, now))

----------------------------------------------------------------------------
(* The inputs: the configurations the server is started with and the       *)
(* requests clients send.                                                  *)

\* Args.path, the served root: /srv
RootPath == PathBuf(<<"srv">>, FALSE)
RootDir == <<"srv">>

Config(auth, no_auth_read, readonly, cors) ==
    [path |-> RootPath, auth |-> auth, no_auth_read |-> no_auth_read,
     readonly |-> readonly, cors |-> cors]

Configs ==
    { Config(None, FALSE, FALSE, FALSE),
      Config(None, FALSE, TRUE, TRUE),
      Config(Some(Credential), FALSE, FALSE, FALSE),
      Config(Some(Credential), TRUE, FALSE, TRUE),
      Config(Some(Credential), TRUE, TRUE, FALSE) }

\* URL paths, as their tokens
TraversalUrls ==
    { <<"/", "..", "/", "etc", "/", "b">>,
      <<"/", "%2e%2e", "/", "etc", "/", "b">>,
      <<"/", "/", "etc", "/", "b">> }

UrlPaths ==
    { <<"/">>,
      <<"/", "b">>,
      <<"/", "b", "/">>,
      <<"/", "Ab">>,
      <<"/", "Ab", "/", "b">>,
      <<"/", "ln">>,
      <<"/", "x">>,
      <<"/", "x", "/">>,
      <<"/", "f", "/", "x">>,
      <<"/", "f", "/", "x", "/", "b">>,
      <<"/", "Ab", "/", "..", "/", "b">>,
      <<"/", "/", "srv", "/", "b">>,
      <<"/", "%ff">> } \cup TraversalUrls

\* the URL paths that are asked with a search or archive query
QueryUrls == { <<"/">>, <<"/", "Ab", "/">>, <<"/", "b">>, <<"/", "x", "/">> }
Queries == {"zip", "q=", "q=b", "q=ab", "q=AB"}

\* the URL paths uploads are sent to
UploadUrls == UrlPaths \ { <<"/", "Ab">>, <<"/", "b", "/">>, <<"/", "/", "srv", "/", "b">> }

\* the URL paths deletions are sent to
DeleteUrls == UrlPaths \ { <<"/">>, <<"/", "ln">> }

\* the URL paths that are asked without a body by the other methods
ProbeUrls == { <<"/">>, <<"/", "b">>, <<"/", "x">>, <<"/", "%ff">> } \cup TraversalUrls

Tags(weak, time, size) == [any |-> FALSE, tags |-> {[weak |-> weak, tag |-> <<time, size>>]}]
IfNoneMatchValues ==
    { Some([any |-> TRUE, tags |-> {}]),
      Some(Tags(FALSE, OldMs, Len(B1))),
      Some(Tags(TRUE, OldMs, Len(B1))),
      Some(Tags(FALSE, OldMs, Len(B2))),
      Some(Tags(FALSE, StartMs, Len(B2))) }
IfModifiedSinceValues == {Some(0), Some(1)}

AuthorizationValues ==
    { Some(<<"Basic", " ", "dXNlcjpwYXNz">>),
      Some(<<"Basic", " ", "dXNlcjpub3Bl">>),
      Some(<<"Basic", " ", "!!">>),
      Some(<<"Basic">>),
      Some(<<"Bearer", " ", "dXNlcjpwYXNz">>) }

Request(method, path, query, body) ==
    [method |-> method, path |-> path, query |-> query, authorization |-> None,
     if_none_match |-> None, if_modified_since |-> None, body |-> body]

NoRequest == Request("", <<"/">>, "", <<>>)

\* every request is sent without an Authorization header and, where a
\* credential is configured, with each of the header values as well
WithAuthorization(rs) ==
    rs \cup IF args.auth = None THEN {}
            ELSE {[r EXCEPT !.authorization = a] : r \in rs, a \in AuthorizationValues}

GetRequests ==
    WithAuthorization(
        {Request("GET", p, "", <<>>) : p \in UrlPaths}
            \cup {Request("GET", p, q, <<>>) : p \in QueryUrls, q \in Queries}
            \cup {[Request("GET", <<"/", "b">>, "", <<>>) EXCEPT
                      !.if_none_match = m, !.if_modified_since = d] :
                    m \in IfNoneMatchValues \cup {None},
                    d \in IfModifiedSinceValues \cup {None}}
            \cup {[Request("GET", <<"/", "Ab", "/", "b">>, "", <<>>) EXCEPT
                      !.if_none_match = m] : m \in IfNoneMatchValues})

PutRequests ==
    WithAuthorization(
        {Request("PUT", p, "", B1) : p \in UploadUrls}
            \cup {Request("PUT", <<"/", "b">>, "", B2)}
            \cup {Request("PUT", <<"/", "Ab", "/", "b">>, "unzip", ZipA),
                  Request("PUT", <<"/", "b">>, "unzip", B1)})

\* the uploads that are sent with ?unzip, each of the archives to each path
UnzipUrls ==
    { <<"/", "b">>, <<"/", "x">>, <<"/", "Ab", "/", "b">>, <<"/", "f", "/", "x">> }
Archives == {ZipA, ZipB, ZipC, ZipD}
UnzipRequests ==
    WithAuthorization({Request("PUT", p, "unzip", a) : p \in UnzipUrls, a \in Archives})

DeleteRequests == WithAuthorization({Request("DELETE", p, "", <<>>) : p \in DeleteUrls})
OptionsRequests == WithAuthorization({Request("OPTIONS", p, "", <<>>) : p \in ProbeUrls})
OtherRequests == WithAuthorization({Request("POST", p, "", <<>>) : p \in ProbeUrls})

----------------------------------------------------------------------------
(* The state machine.                                                      *)

\* no archive is being streamed
NoProducer == [pc |-> "none", dir |-> RootPath, todo |-> {}, cur |-> <<>>,
               chunk |-> <<>>, logged |-> FALSE]
NoDuplex == [buf |-> <<>>, writer |-> FALSE, reader |-> FALSE]
NoStream == [received |-> <<>>, eof |-> FALSE, returned |-> FALSE]

InitFs ==
    (<<>> :> DirNode)
        @@ (<<"srv">> :> DirNode)
        @@ (<<"srv", "Ab">> :> DirNode)
        @@ (<<"srv", "Ab", "b">> :> FileNode(B2, OldMs))
        @@ (<<"srv", "b">> :> FileNode(B1, OldMs))
        @@ (<<"srv", "f">> :> FileNode(B1, OldMs))
        @@ (<<"srv", "ln">> :> SymlinkNode(<<"srv", "b">>))
        @@ (<<"etc">> :> DirNode)
        @@ (<<"etc", "b">> :> FileNode(Secret, OldMs))

Init ==
    /\ fs = InitFs
    /\ clock = StartMs
    /\ args \in Configs
    /\ req = NoRequest
    /\ res = DefaultResponse
    /\ pre = InitFs
    /\ producer = NoProducer
    /\ duplex = NoDuplex
    /\ stream = NoStream
    /\ wrote = <<>>

\* one request, from hyper handing it to InnerService::call to the response
\* call returns; the requests are served one after the other
Serve(r) ==
    LET Returned(c) == fs' = c.fs /\ res' = c.res
    IN  /\ req = NoRequest
        /\ Returned(call(fs, r, clock))
        /\ req' = r
        /\ pre' = fs
        /\ UNCHANGED <<clock, args>>
        /\ UNCHANGED zvars

Get == \E r \in GetRequests : Serve(r)
Put == \E r \in PutRequests : Serve(r)
Delete == \E r \in DeleteRequests : Serve(r)
Options == \E r \in OptionsRequests : Serve(r)
Other == \E r \in OtherRequests : Serve(r)

\* the response has been written to the connection
Respond ==
    /\ req # NoRequest
    /\ req' = NoRequest
    /\ res' = DefaultResponse
    /\ pre' = fs
    /\ UNCHANGED <<fs, clock, args>>
    /\ UNCHANGED zvars

\* time passes
Tick ==
    /\ req = NoRequest
    /\ clock < StartMs + MaxTicks * TickMs
    /\ clock' = clock + TickMs
    /\ UNCHANGED <<fs, args, req, res, pre>>
    /\ UNCHANGED zvars

Next == Get \/ Put \/ Delete \/ Options \/ Other \/ Respond \/ Tick

Spec == Init /\ [][Next]_vars

\* the server under uploads that are extracted
Unzip == \E r \in UnzipRequests : Serve(r)
UnzipNext == Unzip \/ Respond
UnzipSpec == Init /\ [][UnzipNext]_vars

----------------------------------------------------------------------------
(* The hand-off of GET /dir/?zip: handle_zip_dir spawns a task that runs   *)
(* dir_zip and writes the archive into one end of a pipe; the response     *)
(* body reads the other end.  Here dir_zip advances await by await, beside *)
(* the body and beside other requests that remove files.                   *)

\* const BUF_SIZE, the capacity of the pipe in bytes
BUF_SIZE == 1024 * 16

\* a pipe that takes every write
HasRoom_unbounded(buf) == TRUE

\* DuplexStream::poll_write is pending while the buffer holds max_buf_size
\* bytes; otherwise the block is taken
HasRoom(buf) == (Len(buf) + 1) * BlockBytes <= BUF_SIZE

\* a pipe whose writes never fail
WriteFails_never(d) == FALSE

\* DuplexStream::poll_write fails (BrokenPipe) once the read end is dropped
WriteFails(d) == ~d.reader

\* what ZipFileWriter writes: for an entry its header and its data, at
\* close the central directory
EntryBlocks(m, data) ==
    <<[entry |-> m, part |-> "header", k |-> 0, byte |-> 0]>>
        \o [i \in 1..Len(data) |-> [entry |-> m, part |-> "data", k |-> i, byte |-> data[i]]]
Trailer == [entry |-> <<>>, part |-> "trailer", k |-> 0, byte |-> 0]

\* a dir_zip that returns without closing the archive
CloseBlocks_none == <<>>

\* writer.close()
CloseBlocks == <<Trailer>>

\* the stream of a whole archive
RECURSIVE ArchiveBlocks(_)
ArchiveBlocks(entries) ==
    IF entries = <<>> THEN CloseBlocks
    ELSE EntryBlocks(Head(entries).name, Head(entries).data) \o ArchiveBlocks(Tail(entries))

\* walkdir.next(): the entries come in the order of their names
MinRel(rels) ==
    CHOOSE x \in rels : \A y \in rels \ {x} : StrLess(NameChars(x), NameChars(y))

ZipRequests ==
    { Request("GET", <<"/">>, "zip", <<>>), Request("GET", <<"/", "Ab", "/">>, "zip", <<>>) }

\* the requests that remove files while an archive is streamed
ZipDeleteRequests ==
    { Request("DELETE", <<"/", "b">>, "", <<>>), Request("DELETE", <<"/", "Ab", "/", "b">>, "", <<>>) }

\* handle_zip_dir: the pipe is made, the producer is spawned and the
\* response gets the read end as its body
ZipSpawn(r) ==
    LET Spawned(c) ==
            /\ c.res.body.kind = "zip"
            /\ res' = [c.res EXCEPT !.body = [kind |-> "stream"]]
        Started(dir) ==
            producer' = [pc |-> "walk", dir |-> dir, todo |-> WalkDir(fs, dir),
                         cur |-> <<>>, chunk |-> <<>>, logged |-> FALSE]
    IN  /\ req = NoRequest
        /\ producer.pc = "none"
        /\ Spawned(call(fs, r, clock))
        /\ Started(extract_path(r.path)[1])
        /\ req' = r
        /\ pre' = fs
        /\ duplex' = [buf |-> <<>>, writer |-> TRUE, reader |-> TRUE]
        /\ stream' = NoStream
        /\ wrote' = <<>>
        /\ UNCHANGED <<fs, clock, args>>

ZipStart == \E r \in ZipRequests : ZipSpawn(r)

\* call returns the response: from here on the body is polled
ZipReturn ==
    /\ producer.pc # "none"
    /\ ~stream.returned
    /\ stream' = [stream EXCEPT !.returned = TRUE]
    /\ UNCHANGED <<fs, clock, args, req, res, pre, producer, duplex, wrote>>

\* dir_zip, one turn of the loop up to the entry's metadata; after the last
\* entry, writer.close()
ZipWalk ==
    LET Visit(m) ==
            producer' = [producer EXCEPT
                !.todo = @ \ {m},
                !.cur = m,
                !.pc = IF symlink_metadata(fs, EntryPath(producer.dir, m)).kind = "file"
                       THEN "open" ELSE "walk"]
    IN  /\ producer.pc = "walk"
        /\ IF producer.todo # {}
           THEN Visit(MinRel(producer.todo)) /\ UNCHANGED duplex
           ELSE IF CloseBlocks # <<>>
           THEN /\ producer' = [producer EXCEPT !.pc = "close", !.chunk = CloseBlocks]
                /\ UNCHANGED duplex
           ELSE /\ producer' = [producer EXCEPT !.pc = "done"]
                /\ duplex' = [duplex EXCEPT !.writer = FALSE]
        /\ UNCHANGED <<fs, clock, args, req, res, pre, stream, wrote>>

\* dir_zip, File::open(&filepath).await?: an error ends dir_zip; the task
\* logs it and drops the write end
ZipOpen ==
    LET Opened(node) ==
            IF node.kind = "file"
            THEN /\ producer' = [producer EXCEPT
                        !.pc = "copy", !.chunk = EntryBlocks(producer.cur, node.data)]
                 /\ UNCHANGED duplex
            ELSE /\ producer' = [producer EXCEPT !.pc = "failed", !.logged = TRUE]
                 /\ duplex' = [duplex EXCEPT !.writer = FALSE]
    IN  /\ producer.pc = "open"
        /\ Opened(metadata(fs, EntryPath(producer.dir, producer.cur)))
        /\ UNCHANGED <<fs, clock, args, req, res, pre, stream, wrote>>

\* dir_zip, one write into the pipe: of the entry (write_entry_stream,
\* io::copy, file_writer.close()) or of the trailer (writer.close()); a
\* failed write ends dir_zip like a failed open, a full pipe suspends it
ZipWrite ==
    /\ producer.pc \in {"copy", "close"}
    /\ IF WriteFails(duplex)
       THEN /\ producer' = [producer EXCEPT !.pc = "failed", !.logged = TRUE]
            /\ duplex' = [duplex EXCEPT !.writer = FALSE]
            /\ UNCHANGED wrote
       ELSE /\ HasRoom(duplex.buf)
            /\ wrote' = Append(wrote, Head(producer.chunk))
            /\ producer' = [producer EXCEPT
                   !.chunk = Tail(@),
                   !.pc = IF Len(producer.chunk) > 1 THEN @
                          ELSE IF @ = "copy" THEN "walk" ELSE "done"]
            /\ duplex' = [duplex EXCEPT
                   !.buf = Append(@, Head(producer.chunk)),
                   !.writer = ~(Len(producer.chunk) = 1 /\ producer.pc = "close")]
    /\ UNCHANGED <<fs, clock, args, req, res, pre, stream>>

\* ReaderStream: the body takes what the pipe holds
StreamRead ==
    /\ stream.returned
    /\ duplex.reader
    /\ duplex.buf # <<>>
    /\ stream' = [stream EXCEPT !.received = Append(@, Head(duplex.buf))]
    /\ duplex' = [duplex EXCEPT !.buf = Tail(@)]
    /\ UNCHANGED <<fs, clock, args, req, res, pre, producer, wrote>>

\* ReaderStream: the pipe is empty and its write end is dropped
StreamEof ==
    /\ stream.returned
    /\ duplex.reader
    /\ ~stream.eof
    /\ duplex.buf = <<>>
    /\ ~duplex.writer
    /\ stream' = [stream EXCEPT !.eof = TRUE]
    /\ UNCHANGED <<fs, clock, args, req, res, pre, producer, duplex, wrote>>

\* the client goes away: hyper drops the body and with it the read end
Disconnect ==
    /\ stream.returned
    /\ duplex.reader
    /\ ~stream.eof
    /\ duplex' = [duplex EXCEPT !.reader = FALSE]
    /\ UNCHANGED <<fs, clock, args, req, res, pre, producer, stream, wrote>>

\* another request, served meanwhile, removes a file
Interfere ==
    LET Removed(c) == c.fs # fs /\ fs' = c.fs
    IN  /\ producer.pc \notin {"none", "done", "failed"}
        /\ \E r \in ZipDeleteRequests : Removed(call(fs, r, clock))
        /\ UNCHANGED <<clock, args, req, res, pre, producer, duplex, stream, wrote>>

ZipNext ==
    \/ ZipStart
    \/ ZipReturn
    \/ ZipWalk
    \/ ZipOpen
    \/ ZipWrite
    \/ StreamRead
    \/ StreamEof
    \/ Disconnect
    \/ Interfere

ZipSpec == Init /\ [][ZipNext]_vars

\* the runtime runs every task that can run, and hyper polls the body of a
\* response it holds
ZipFairSpec ==
    /\ Init
    /\ [][ZipNext]_vars
    /\ WF_vars(ZipReturn)
    /\ WF_vars(ZipWalk)
    /\ WF_vars(ZipOpen)
    /\ WF_vars(ZipWrite)
    /\ WF_vars(StreamRead)
    /\ WF_vars(StreamEof)

----------------------------------------------------------------------------
(* The properties.  They speak about the request just served: req, its     *)
(* response res, the filesystem pre it found and the filesystem fs it      *)
(* left.                                                                   *)

Served == req # NoRequest
PassedGuard == Served /\ auth_guard(req)
Resolved == PassedGuard /\ extract_path(req.path) # None
Target == extract_path(req.path)[1]

\* where a path leads when every ".." steps to the parent
RECURSIVE Normalize(_, _)
Normalize(done, comps) ==
    IF comps = <<>> THEN done
    ELSE IF Head(comps) = ".." THEN Normalize(Parent(done), Tail(comps))
    ELSE Normalize(Append(done, Head(comps)), Tail(comps))

\* the location the percent-decoded URL path of a request denotes
Denoted(r) ==
    Normalize(<<>>, PathJoin(RootPath, percent_decode(Tail(r.path)).toks).comps)

EscapesRoot(r) ==
    /\ percent_decode(Tail(r.path)).ok
    /\ ~IsPrefix(RootDir, Denoted(r))

\* C1: a request whose decoded URL path denotes a location outside the
\* root (by ".." segments or by an injected absolute path) is answered 403
\* and nothing is read from or changed in the filesystem.
C1_EscapeRejected ==
    (PassedGuard /\ EscapesRoot(req)) =>
        /\ res.status = FORBIDDEN
        /\ res.body = EmptyBody
        /\ fs = pre

\* the header "Basic <base64 of the configured user:pass>"
CarriesCredential(r) ==
    /\ args.auth # None
    /\ r.authorization # None
    /\ Len(r.authorization[1]) = 3
    /\ SubSeq(r.authorization[1], 1, 2) = <<"Basic", " ">>
    /\ base64_decode(SubSeq(r.authorization[1], 3, 3)).ok
    /\ base64_decode(SubSeq(r.authorization[1], 3, 3)).text = args.auth[1]

\* C2: with a credential configured, a request that carries the header
\* "Authorization: Basic <base64 of the credential>" passes the guard: it
\* is not answered 401.
C2_CredentialPasses ==
    (Served /\ CarriesCredential(req)) => res.status # UNAUTHORIZED

\* C3: with a credential configured, a request without an Authorization
\* header passes the guard exactly when anonymous read is enabled and the
\* method is GET; a request whose header does not carry the credential
\* does not pass; a request that does not pass is answered 401 with
\* "WWW-Authenticate: Basic", an empty body and an unchanged filesystem.
C3_GuardDecision ==
    (Served /\ args.auth # None) =>
        /\ req.authorization = None =>
              (res.status # UNAUTHORIZED <=> (args.no_auth_read /\ req.method = "GET"))
        /\ (req.authorization # None /\ ~CarriesCredential(req)) =>
              res.status = UNAUTHORIZED
        /\ res.status = UNAUTHORIZED =>
              /\ res.www_authenticate = "Basic"
              /\ res.body = EmptyBody
              /\ fs = pre

C3_Witness ==
    /\ Served
    /\ args.auth # None
    /\ ~args.no_auth_read
    /\ req.authorization = None
    /\ req.method = "PUT"
    /\ res.status = UNAUTHORIZED
    /\ res.www_authenticate = "Basic"

\* C4: in read-only mode the filesystem never differs from the initial
\* one; a PUT (with or without ?unzip) that passes the guard and path
\* resolution is answered 403, and so is a DELETE of an existing path.
C4_ReadonlyFrame ==
    args.readonly =>
        /\ fs = InitFs
        /\ (Resolved /\ req.method = "PUT") => res.status = FORBIDDEN
        /\ (Resolved /\ req.method = "DELETE"
                /\ metadata(pre, Target).kind # "none") => res.status = FORBIDDEN

C4_Witness ==
    /\ args.readonly
    /\ Resolved
    /\ req.method = "PUT"
    /\ req.query = "unzip"
    /\ res.status = FORBIDDEN
    /\ fs = InitFs


TargetNode == metadata(pre, Target)
TargetAt == Resolve(pre, Target, TRUE).at
Unconditional == req.if_none_match = None /\ req.if_modified_since = None

\* the parent of a path is a directory or can be created
ParentUsable(f, p) ==
    /\ HasParent(p)
    /\ \/ metadata(f, PathParent(p)).kind = "dir"
       \/ /\ metadata(f, PathParent(p)).kind = "none"
          /\ create_dir_all(f, PathParent(p)).ok

UploadAdmitted ==
    /\ Resolved
    /\ ~args.readonly
    /\ req.method = "PUT"
    /\ req.query # "unzip"
    /\ ParentUsable(pre, Target)
    /\ TargetNode.kind # "dir"

Uploaded ==
    /\ res.status = OK
    /\ metadata(fs, Target) = FileNode(req.body, clock)

SentWhole ==
    /\ res.status = OK
    /\ res.body = [kind |-> "file", data |-> TargetNode.data]
    /\ res.etag = [present |-> TRUE, weak |-> FALSE,
                   tag |-> <<TargetNode.mtime, Len(TargetNode.data)>>]

PlainGetOfFile ==
    /\ Resolved
    /\ req.method = "GET"
    /\ Unconditional
    /\ TargetNode.kind = "file"

\* C5 as stated: with read-only off, a PUT (no ?unzip) of B to a P that
\* resolves, whose parent is a directory or can be created and that is no
\* existing directory, leaves P a file holding exactly B (whatever it held
\* before), and a GET of a file, sent without validators, returns 200, the
\* file's bytes and the validator "<mtime>-<length>".
C5_RoundTrip ==
    /\ UploadAdmitted => Uploaded
    /\ PlainGetOfFile => SentWhole

\* C5, amended: with read-only off, a PUT (no ?unzip) of B to a P that
\* resolves, does not end in '/', has a parent that is a directory or can
\* be created and is no existing directory, leaves P a file holding
\* exactly B, and a GET of a file, sent without validators, returns 200,
\* the file's bytes and the validator "<mtime>-<length>".
C5_RoundTripAmended ==
    /\ (UploadAdmitted /\ ~Target.trail) => Uploaded
    /\ PlainGetOfFile => SentWhole

C5_Witness ==
    /\ Resolved
    /\ req.method = "GET"
    /\ Unconditional
    /\ TargetAt = <<"srv", "b">>
    /\ InitFs[TargetAt].data = B1
    /\ res.status = OK
    /\ res.body = [kind |-> "file", data |-> B2]
    /\ res.etag.tag = <<clock, Len(B2)>>

\* the single strong tag of an If-None-Match header
Captured == CHOOSE t \in req.if_none_match[1].tags : TRUE
CapturedGet ==
    /\ Resolved
    /\ req.method = "GET"
    /\ TargetNode.kind = "file"
    /\ req.if_none_match # None
    /\ ~req.if_none_match[1].any
    /\ Cardinality(req.if_none_match[1].tags) = 1
    /\ ~Captured.weak

\* C6: a GET of a file with If-None-Match: E, E a validator the server
\* issued, is answered 304 with an empty body and the headers ETag E and
\* Last-Modified when the file's mtime and size are still those of E, and
\* 200 with the file's bytes and the new validator when they are not.
C6_Revalidation ==
    CapturedGet =>
        LET now == <<TargetNode.mtime, Len(TargetNode.data)>>
        IN  /\ res.last_modified = Some(TargetNode.mtime \div 1000)
            /\ res.etag = [present |-> TRUE, weak |-> FALSE, tag |-> now]
            /\ IF Captured.tag = now
               THEN res.status = NOT_MODIFIED /\ res.body = EmptyBody
               ELSE /\ res.status = OK
                    /\ res.body = [kind |-> "file", data |-> TargetNode.data]

C6_Witness ==
    /\ CapturedGet
    /\ res.status = NOT_MODIFIED
    /\ res.body = EmptyBody
    /\ Captured.tag = <<StartMs, Len(B2)>>
    /\ res.etag.tag = Captured.tag

Listed == {res.body.paths[i].name : i \in 1..Len(res.body.paths)}

\* C7: GET /dir/?q=term lists exactly the entries below dir whose name
\* contains term, case-insensitively, term being all that follows "q=".
C7_SearchTerm ==
    (/\ Resolved
     /\ req.method = "GET"
     /\ TargetNode.kind = "dir"
     /\ starts_with_str(Chars(req.query), Chars("q="))
     /\ Len(Chars(req.query)) > 2) =>
        LET term == SubSeq(Chars(req.query), 3, Len(Chars(req.query)))
        IN  /\ res.status = OK
            /\ res.body.kind = "index"
            /\ Listed = {e \in WalkDir(pre, Target) :
                           /\ contains(to_lowercase(Chars(e[Len(e)])), to_lowercase(term))
                           /\ metadata(pre, EntryPath(Target, e)).kind # "none"}

RegularBelow == {c \in DOMAIN pre : IsPrefix(TargetAt, c) /\ pre[c].kind = "file"}

\* C8: the archive GET /dir/?zip streams holds one entry for every regular
\* file below dir, named by its path relative to dir and carrying its
\* bytes, no entry for anything else, and the trailer.
C8_ZipEntries ==
    (Resolved /\ req.method = "GET" /\ TargetNode.kind = "dir" /\ req.query = "zip") =>
        /\ res.status = OK
        /\ res.body.kind = "zip"
        /\ res.body.closed
        /\ Len(res.body.entries) = Cardinality(RegularBelow)
        /\ {TargetAt \o res.body.entries[i].name : i \in 1..Len(res.body.entries)}
              = RegularBelow
        /\ \A i \in 1..Len(res.body.entries) :
              res.body.entries[i].data = pre[TargetAt \o res.body.entries[i].name].data

C8_Witness ==
    /\ Resolved
    /\ req.method = "GET"
    /\ req.query = "zip"
    /\ TargetAt = RootDir
    /\ res.body.kind = "zip"
    /\ pre[<<"srv", "ln">>].kind = "symlink"
    /\ \E i \in 1..Len(res.body.entries) : res.body.entries[i].name = <<"Ab", "b">>
    /\ \E i \in 1..Len(res.body.entries) : res.body.entries[i].name = <<"b">>
    /\ \A i \in 1..Len(res.body.entries) : res.body.entries[i].name # <<"ln">>

DeleteServed == Resolved /\ ~args.readonly /\ req.method = "DELETE"

\* C9: with read-only off, a DELETE of a directory removes it and all
\* below it and nothing else, a DELETE of a file removes that file and
\* nothing else, and a DELETE of a missing path changes nothing and is
\* answered 404.
C9_DeleteFrame ==
    DeleteServed =>
        CASE TargetNode.kind = "none" -> fs = pre /\ res.status = NOT_FOUND
          [] TargetNode.kind = "dir"  ->
                fs = [c \in DOMAIN pre \ Subtree(pre, TargetAt) |-> pre[c]]
          [] TargetNode.kind = "file" ->
                fs = [c \in DOMAIN pre \ {TargetAt} |-> pre[c]]

C9_Witness ==
    /\ DeleteServed
    /\ TargetAt = <<"srv", "Ab">>
    /\ <<"srv", "Ab", "b">> \in DOMAIN pre
    /\ <<"srv", "Ab">> \notin DOMAIN fs
    /\ <<"srv", "Ab", "b">> \notin DOMAIN fs
    /\ <<"srv", "b">> \in DOMAIN fs

\* C10: a GET of a missing path is answered with a 200 listing page that
\* has no entries, whether or not the URL ends in '/'; a GET of a directory
\* without a zip or q= query is answered with a 200 listing of its
\* children.
C10_Listing ==
    (Resolved /\ req.method = "GET") =>
        /\ TargetNode.kind = "none" =>
              /\ res.status = OK
              /\ res.body.kind = "index"
              /\ res.body.paths = <<>>
        /\ (/\ TargetNode.kind = "dir"
            /\ req.query # "zip"
            /\ ~starts_with_str(Chars(req.query), Chars("q="))) =>
              /\ res.status = OK
              /\ res.body.kind = "index"
              /\ Listed = {e \in read_dir(pre, Target).entries :
                             metadata(pre, EntryPath(Target, e)).kind # "none"}

\* C11: an OPTIONS request that carries no Authorization header, to any
\* path that resolves, is answered 204 with an empty body under every
\* configuration.
C11_OptionsNoContent ==
    (/\ Served
     /\ req.method = "OPTIONS"
     /\ req.authorization = None
     /\ extract_path(req.path) # None) =>
        /\ res.status = NO_CONTENT
        /\ res.body = EmptyBody

\* C12: every request is answered with one response, and a request whose
\* handler fails is answered 500 with the error's message as the body; a
\* GET of a directory with the query "q=" is no exception.
C12_OneResponse ==
    Served =>
        /\ res.status # NoResponse
        /\ handle(pre, req, clock).outcome = "err" =>
              /\ res.status = INTERNAL_SERVER_ERROR
              /\ res.body = [kind |-> "error"]

\* the validator of the file a GET finds, and whether a header names it
Validator == <<TargetNode.mtime, Len(TargetNode.data)>>
Matches(if_none_match) ==
    if_none_match.any \/ \E t \in if_none_match.tags : t.tag = Validator

FileGet == Resolved /\ req.method = "GET" /\ TargetNode.kind = "file"

SentOrFresh(fresh) ==
    IF fresh
    THEN res.status = NOT_MODIFIED /\ res.body = EmptyBody
    ELSE res.status = OK /\ res.body = [kind |-> "file", data |-> TargetNode.data]

\* C16 as stated: with If-None-Match the file is fresh exactly when the
\* header matches the validator, whatever If-Modified-Since says; without
\* it and with If-Modified-Since the file is fresh exactly when its
\* modification time is not later than the header's time; with neither
\* header the answer is never 304.
C16_Precedence ==
    FileGet =>
        IF req.if_none_match # None
        THEN SentOrFresh(Matches(req.if_none_match[1]))
        ELSE IF req.if_modified_since # None
        THEN SentOrFresh(~(TargetNode.mtime > req.if_modified_since[1] * 1000))
        ELSE SentOrFresh(FALSE)

\* C16, amended: as C16, the modification time being compared in whole
\* seconds: the file is fresh exactly when its modification time, cut to
\* the second, is not later than the header's time.
C16_PrecedenceAmended ==
    FileGet =>
        IF req.if_none_match # None
        THEN SentOrFresh(Matches(req.if_none_match[1]))
        ELSE IF req.if_modified_since # None
        THEN SentOrFresh(~(TargetNode.mtime \div 1000 > req.if_modified_since[1]))
        ELSE SentOrFresh(FALSE)

C16_Witness ==
    /\ FileGet
    /\ req.if_none_match # None
    /\ ~Matches(req.if_none_match[1])
    /\ req.if_modified_since # None
    /\ TargetNode.mtime \div 1000 <= req.if_modified_since[1]
    /\ res.status = OK
    /\ res.body = [kind |-> "file", data |-> TargetNode.data]

PutServed == Resolved /\ ~args.readonly /\ req.method = "PUT"

\* some proper ancestor of the target is there and is no directory
AncestorNotDir ==
    \E k \in 1..(Len(Target.comps) - 1) :
        metadata(pre, PathBuf(SubSeq(Target.comps, 1, k), FALSE)).kind = "file"

\* C18: with read-only off a PUT whose parent is there and is no directory
\* is answered 403 and creates nothing; a PUT whose parent is missing and
\* can be created has it created and is not refused; a PUT whose target
\* has an ancestor that is no directory is answered 403.
C18_ParentForbidden ==
    PutServed =>
        /\ (HasParent(Target) /\ metadata(pre, PathParent(Target)).kind = "file") =>
              res.status = FORBIDDEN /\ fs = pre
        /\ (/\ HasParent(Target)
            /\ metadata(pre, PathParent(Target)).kind = "none"
            /\ create_dir_all(pre, PathParent(Target)).ok) =>
              /\ res.status # FORBIDDEN
              /\ metadata(fs, PathParent(Target)).kind = "dir"
        /\ AncestorNotDir => res.status = FORBIDDEN

UnzipServed ==
    /\ Resolved
    /\ ~args.readonly
    /\ req.method = "PUT"
    /\ req.query = "unzip"
    /\ ZipEntries(req.body).ok

Entry(i) == ZipEntries(req.body).entries[i]
EntryTarget(i) == PathJoin(PathParent(Target), Entry(i).name)
ParentAt == Resolve(pre, PathParent(Target), TRUE).at

\* entry i is on disk as what the archive says it is
Extracted(i) ==
    IF Entry(i).name[Len(Entry(i).name)] = "/"
    THEN metadata(fs, EntryTarget(i)).kind = "dir"
    ELSE /\ metadata(fs, EntryTarget(i)).kind = "file"
         /\ metadata(fs, EntryTarget(i)).data = Entry(i).data

\* entry i is on disk below the directory the archive was uploaded to
ExtractedBelowParent(i) ==
    /\ Extracted(i)
    /\ IsPrefix(ParentAt, Resolve(fs, EntryTarget(i), TRUE).at)

\* the upload itself went through: the archive was stored at P
Stored ==
    /\ ParentUsable(pre, Target)
    /\ TargetNode.kind # "dir"
    /\ ~Target.trail

\* C17: after a 200 answer to PUT P?unzip with an archive, P is gone and
\* every entry is on disk below P's parent, a name ending in '/' as a
\* directory, any other as a file with the entry's content; when the
\* extraction fails the answer is 500, the entries before the failing one
\* are on disk and P is still there.
C17_Unzip ==
    (UnzipServed /\ Stored) =>
        /\ res.status \in {OK, INTERNAL_SERVER_ERROR}
        /\ res.status = OK =>
              /\ metadata(fs, Target).kind = "none"
              /\ \A i \in 1..Len(ZipEntries(req.body).entries) : ExtractedBelowParent(i)
        /\ res.status = INTERNAL_SERVER_ERROR =>
              /\ metadata(fs, Target).kind = "file"
              /\ \E i \in 1..Len(ZipEntries(req.body).entries) :
                    /\ ~ExtractedBelowParent(i)
                    /\ \A j \in 1..(i - 1) : ExtractedBelowParent(j)

\* the same with the entries taken where their names lead, below P's
\* parent or not
C17_UnzipAnywhere ==
    (UnzipServed /\ Stored) =>
        /\ res.status \in {OK, INTERNAL_SERVER_ERROR}
        /\ res.status = OK =>
              /\ metadata(fs, Target).kind = "none"
              /\ \A i \in 1..Len(ZipEntries(req.body).entries) : Extracted(i)
        /\ res.status = INTERNAL_SERVER_ERROR =>
              /\ metadata(fs, Target).kind = "file"
              /\ \E i \in 1..Len(ZipEntries(req.body).entries) :
                    \A j \in 1..(i - 1) : Extracted(j)

\* the paths whose node a request created, replaced or removed
Touched == {c \in DOMAIN pre \cup DOMAIN fs :
              ~(c \in DOMAIN pre /\ c \in DOMAIN fs /\ pre[c] = fs[c])}

\* C19: whatever the names of the entries, every path PUT P?unzip creates
\* or overwrites lies inside the root, indeed inside P's parent.
C19_ExtractInside ==
    (UnzipServed /\ Stored) =>
        \A c \in Touched : IsPrefix(RootDir, c) /\ IsPrefix(ParentAt, c)

Streaming == producer.pc \notin {"none", "done", "failed"}
Writing == producer.pc \in {"copy", "close"}
InFlightBytes == Len(duplex.buf) * BlockBytes
PipeFull == InFlightBytes + BlockBytes > BUF_SIZE

\* C13: a file that cannot be opened costs the archive that one entry: the
\* producer ends early only when the pipe fails, and a stream that ends
\* while the client is there ends with the trailer.
C13_SkipOnly ==
    /\ producer.pc = "failed" => ~duplex.reader
    /\ stream.eof => /\ stream.received # <<>>
                     /\ stream.received[Len(stream.received)] = Trailer

\* C14: the pipe never holds more than BUF_SIZE bytes; while it is full and
\* the body is there, the producer stands still and nothing more is
\* written; the response is returned without waiting for the producer,
\* and is returned before the producer has written more than the pipe
\* holds.
C14_Backpressure ==
    /\ [](InFlightBytes <= BUF_SIZE)
    /\ [][(Writing /\ PipeFull /\ duplex.reader) =>
              (producer' = producer /\ wrote' = wrote)]_vars
    /\ []((producer.pc # "none" /\ ~stream.returned) => ENABLED ZipReturn)
    /\ [](Len(wrote) * BlockBytes > BUF_SIZE => stream.returned)

C14_Witness ==
    /\ stream.returned
    /\ Writing
    /\ PipeFull
    /\ duplex.reader
    /\ ~ENABLED ZipWrite
    /\ res.status = OK

\* C15: what the body has received is always the beginning of what the
\* producer has written and is all of it at the end of the stream; a
\* producer that has finished has written the trailer last, and without
\* removals the stream is the archive of the directory; while the client
\* stays and no file fails, the producer finishes and drops its end, and
\* the body then comes to the end of the stream.
C15_Delivery ==
    /\ [](IsPrefix(stream.received, wrote))
    /\ [](stream.eof => stream.received = wrote)
    /\ [](producer.pc = "done" =>
            /\ ~duplex.writer
            /\ wrote # <<>>
            /\ wrote[Len(wrote)] = Trailer
            /\ fs = pre => wrote = ArchiveBlocks(dir_zip(pre, producer.dir).entries))
    /\ (Streaming ~> (producer.pc = "done" \/ producer.pc = "failed" \/ ~duplex.reader))
    /\ (producer.pc = "done" ~> (stream.eof \/ ~duplex.reader))

C15_Witness ==
    /\ producer.pc = "done"
    /\ stream.eof
    /\ fs = pre
    /\ Len(stream.received) * BlockBytes > BUF_SIZE
    /\ stream.received = ArchiveBlocks(dir_zip(pre, producer.dir).entries)

\* C20: once the read end is dropped, the producer's next write fails, the
\* producer ends with the error logged and nothing more written, and it
\* does end; the response keeps its status; a producer whose write cannot
\* complete has a body that is still there.
C20_Disconnect ==
    /\ [][(~duplex.reader /\ Writing /\ producer' # producer) =>
              (/\ producer'.pc = "failed"
               /\ producer'.logged
               /\ ~duplex'.writer
               /\ wrote' = wrote)]_vars
    /\ [][producer.pc # "none" => res' = res]_vars
    /\ []((Writing /\ ~ENABLED ZipWrite) => duplex.reader)
    /\ ((Streaming /\ stream.returned /\ ~duplex.reader) ~> producer.pc = "failed")

C20_Witness ==
    /\ stream.returned
    /\ ~stream.eof
    /\ ~duplex.reader
    /\ producer.pc = "failed"
    /\ producer.logged
    /\ fs = pre
    /\ res.status = OK
    /\ wrote # ArchiveBlocks(dir_zip(pre, producer.dir).entries)

====
